---- MODULE Spec2Model ----
\* The purple-air proxy route (rate limiter, cache, sweep, GET handler) and the
\* display component's AQI conversion, as a state machine.
\*
\* src/src/app/api/purple-air/[sensorId]/route.ts holds two revisions of the
\* route module: lines 1-123 (a setInterval timer sweeps both tables, put only
\* stores) and lines 125-272 (no timer, setCachedData sweeps both tables before
\* it stores, the caller is also identified by x-real-ip).  The variable
\* `build` says which revision is loaded; it never changes.
EXTENDS Integers, Sequences, FiniteSets, TLC

\* ---------------------------------------------------------------- constants
RATE_LIMIT_WINDOW == 300000

MAX_REQUESTS == 10

CACHE_DURATION == 1800000

SWEEP_INTERVAL == 300000

CacheWindows == CACHE_DURATION \div RATE_LIMIT_WINDOW

\* ------------------------------------------------------------------- bounds
\* Spec (handler and cache): the clock advances one rate-limit window at a
\* time, MaxTicks times; at most MaxGets requests arrive.
MaxTicks == 8

MaxGets == 2

\* Handlers that may be suspended on the upstream call at once.
MaxInFlight == 2

\* SpecDisplay: readings of 0..MaxPm25 tenths; at most MaxPolls polls in flight.
MaxPm25 == 1600

MaxPolls == 1

\* SpecLimiter (rate limiter): the clock advances
\* RATE_LIMIT_WINDOW \div LimiterTicksPerWindow ms at a time, LimiterMaxTicks
\* times; at most LimiterMaxGets requests arrive.
LimiterTicksPerWindow == 2

LimiterMaxTicks == 5

LimiterMaxGets == 12

Builds == {"interval", "onPut"}

\* Values of the x-forwarded-for and x-real-ip headers ("" = header absent).
ForwardedFor == {"", "a"}

RealIp == {"", "b"}

Sensors == {"s1", "s2"}

\* Upstream payloads (JSON objects, so never falsy).
Payloads == {"d1", "d2"}

\* Ways the upstream call fails: fetch rejects, !response.ok, json() rejects.
Failures == {"transport", "status", "json"}

Null == "null"

\* The route module: which revision is loaded, Date.now(), the time the sweep
\* timer is due, the two Maps, the handlers suspended on the upstream call, and
\* four observations: the last thing that happened, each caller's recent
\* requests, the number of requests so far, and the two Maps as they would be
\* had no clean-up loop ever run.
VARIABLES build, now, nextSweep, rateLimit, cache, pending, event, recent, gets,
          unswept

\* The display component: its three useState cells and the polls in flight.
VARIABLES aqiData, loading, error, polling

routeVars ==
    <<build, now, nextSweep, rateLimit, cache, pending, event, recent, gets, unswept>>

displayVars == <<aqiData, loading, error, polling>>

vars == <<routeVars, displayVars>>

\* ------------------------------------------------------------------ Map ops
\* Map.set
MapSet(m, k, v) == [x \in DOMAIN m \cup {k} |-> IF x = k THEN v ELSE m[x]]

\* Map.delete of every key in ks
MapDelete(m, ks) == [x \in DOMAIN m \ ks |-> m[x]]

EmptyMap == [x \in {} |-> 0]

\* ------------------------------------------------------------- rate limiter
\* Faulty variant: the limit test admits one request too many.
checkRateLimit_OffByOne(rl, ip, t) ==
    IF ip \notin DOMAIN rl
    THEN [allowed |-> TRUE,
          rateLimit |-> MapSet(rl, ip, [count |-> 1, timestamp |-> t])]
    ELSE IF t - rl[ip].timestamp > RATE_LIMIT_WINDOW
    THEN [allowed |-> TRUE,
          rateLimit |-> MapSet(rl, ip, [count |-> 1, timestamp |-> t])]
    ELSE IF rl[ip].count <= MAX_REQUESTS
    THEN [allowed |-> TRUE,
          rateLimit |-> MapSet(rl, ip, [count |-> rl[ip].count + 1,
                                        timestamp |-> rl[ip].timestamp])]
    ELSE [allowed |-> FALSE, rateLimit |-> rl]

\* Faulty variant: an in-window request moves the window start.
checkRateLimit_SlidingStart(rl, ip, t) ==
    IF ip \notin DOMAIN rl
    THEN [allowed |-> TRUE,
          rateLimit |-> MapSet(rl, ip, [count |-> 1, timestamp |-> t])]
    ELSE IF t - rl[ip].timestamp > RATE_LIMIT_WINDOW
    THEN [allowed |-> TRUE,
          rateLimit |-> MapSet(rl, ip, [count |-> 1, timestamp |-> t])]
    ELSE IF rl[ip].count < MAX_REQUESTS
    THEN [allowed |-> TRUE,
          rateLimit |-> MapSet(rl, ip, [count |-> rl[ip].count + 1, timestamp |-> t])]
    ELSE [allowed |-> FALSE, rateLimit |-> rl]

\* Faulty variant: every caller is counted under the one key 'unknown'.
checkRateLimit_Shared(rl, ip, t) ==
    IF "unknown" \notin DOMAIN rl
    THEN [allowed |-> TRUE,
          rateLimit |-> MapSet(rl, "unknown", [count |-> 1, timestamp |-> t])]
    ELSE IF t - rl["unknown"].timestamp > RATE_LIMIT_WINDOW
    THEN [allowed |-> TRUE,
          rateLimit |-> MapSet(rl, "unknown", [count |-> 1, timestamp |-> t])]
    ELSE IF rl["unknown"].count < MAX_REQUESTS
    THEN [allowed |-> TRUE,
          rateLimit |-> MapSet(rl, "unknown", [count |-> rl["unknown"].count + 1,
                                               timestamp |-> rl["unknown"].timestamp])]
    ELSE [allowed |-> FALSE, rateLimit |-> rl]

\* Faulty variant: a denied request restarts the window.
checkRateLimit_DeniedExtends(rl, ip, t) ==
    IF ip \notin DOMAIN rl
    THEN [allowed |-> TRUE,
          rateLimit |-> MapSet(rl, ip, [count |-> 1, timestamp |-> t])]
    ELSE IF t - rl[ip].timestamp > RATE_LIMIT_WINDOW
    THEN [allowed |-> TRUE,
          rateLimit |-> MapSet(rl, ip, [count |-> 1, timestamp |-> t])]
    ELSE IF rl[ip].count < MAX_REQUESTS
    THEN [allowed |-> TRUE,
          rateLimit |-> MapSet(rl, ip, [count |-> rl[ip].count + 1,
                                        timestamp |-> rl[ip].timestamp])]
    ELSE [allowed |-> FALSE,
          rateLimit |-> MapSet(rl, ip, [count |-> rl[ip].count, timestamp |-> t])]

checkRateLimit(rl, ip, t) ==
    IF ip \notin DOMAIN rl
    THEN [allowed |-> TRUE,
          rateLimit |-> MapSet(rl, ip, [count |-> 1, timestamp |-> t])]
    ELSE IF t - rl[ip].timestamp > RATE_LIMIT_WINDOW
    THEN [allowed |-> TRUE,
          rateLimit |-> MapSet(rl, ip, [count |-> 1, timestamp |-> t])]
    ELSE IF rl[ip].count < MAX_REQUESTS
    THEN [allowed |-> TRUE,
          rateLimit |-> MapSet(rl, ip, [count |-> rl[ip].count + 1,
                                        timestamp |-> rl[ip].timestamp])]
    ELSE [allowed |-> FALSE, rateLimit |-> rl]

\* -------------------------------------------------------------------- cache
\* Faulty variant: an entry of age exactly CACHE_DURATION is still served.
getCachedData_Inclusive(c, sensorId, t) ==
    IF sensorId \notin DOMAIN c
    THEN [data |-> Null, cache |-> c]
    ELSE IF t - c[sensorId].timestamp <= CACHE_DURATION
    THEN [data |-> c[sensorId].data, cache |-> c]
    ELSE [data |-> Null, cache |-> MapDelete(c, {sensorId})]

getCachedData(c, sensorId, t) ==
    IF sensorId \notin DOMAIN c
    THEN [data |-> Null, cache |-> c]
    ELSE IF t - c[sensorId].timestamp < CACHE_DURATION
    THEN [data |-> c[sensorId].data, cache |-> c]
    ELSE [data |-> Null, cache |-> MapDelete(c, {sensorId})]

\* Faulty variant: the loop also deletes an entry of age exactly RATE_LIMIT_WINDOW.
cleanRateLimit_Inclusive(rl, t) ==
    MapDelete(rl, {ip \in DOMAIN rl : t - rl[ip].timestamp >= RATE_LIMIT_WINDOW})

\* The two clean-up loops (timer callback, and the head of the later setCachedData).
cleanRateLimit(rl, t) ==
    MapDelete(rl, {ip \in DOMAIN rl : t - rl[ip].timestamp > RATE_LIMIT_WINDOW})

\* Faulty variant: the loop also deletes an entry of age exactly CACHE_DURATION.
cleanCache_Inclusive(c, t) ==
    MapDelete(c, {k \in DOMAIN c : t - c[k].timestamp >= CACHE_DURATION})

cleanCache(c, t) ==
    MapDelete(c, {k \in DOMAIN c : t - c[k].timestamp > CACHE_DURATION})

\* Faulty variant: put keeps an entry that is already there.
setCachedData_KeepExisting(b, rl, c, sensorId, data, t) ==
    LET swept == IF b = "interval" THEN c ELSE cleanCache(c, t)
    IN  [rateLimit |-> IF b = "interval" THEN rl ELSE cleanRateLimit(rl, t),
         cache |-> IF sensorId \in DOMAIN swept THEN swept
                   ELSE MapSet(swept, sensorId, [data |-> data, timestamp |-> t])]

setCachedData(b, rl, c, sensorId, data, t) ==
    IF b = "interval"
    THEN [rateLimit |-> rl,
          cache |-> MapSet(c, sensorId, [data |-> data, timestamp |-> t])]
    ELSE [rateLimit |-> cleanRateLimit(rl, t),
          cache |-> MapSet(cleanCache(c, t), sensorId,
                           [data |-> data, timestamp |-> t])]

\* ------------------------------------------------------------------ handler
\* The caller's identifier.
clientIp(b, xff, xri) ==
    IF xff # "" THEN xff
    ELSE IF b = "onPut" /\ xri # "" THEN xri
    ELSE "unknown"

ClientIds == (ForwardedFor \cup RealIp \cup {"unknown"}) \ {""}

FreeSlots(slots) == slots \ DOMAIN pending

FirstFree(slots) == CHOOSE h \in FreeSlots(slots) : \A g \in FreeSlots(slots) : h <= g

Event(op, ip, sensorId, status, data) ==
    [op |-> op, ip |-> ip, sensorId |-> sensorId, status |-> status, data |-> data]

\* The client's requests of the last RATE_LIMIT_WINDOW ms, the newest last, at
\* most MAX_REQUESTS + 1 of them (observation only).
RECURSIVE Within(_, _)
Within(log, t) ==
    IF log = <<>> THEN <<>>
    ELSE IF t - Head(log).t > RATE_LIMIT_WINDOW THEN Within(Tail(log), t)
    ELSE log

LastN(log, n) == IF Len(log) > n THEN SubSeq(log, Len(log) - n + 1, Len(log)) ELSE log

Observe(log, ip, t, allowed) ==
    LastN(Within(Append(log, [t |-> t,
                              opened |-> \/ ip \notin DOMAIN rateLimit
                                         \/ t - rateLimit[ip].timestamp > RATE_LIMIT_WINDOW,
                              allowed |-> allowed]), t),
          MAX_REQUESTS + 1)

\* ------------------------------------------------------------------ display
\* Math.round(n / d) for d > 0: the nearest integer, a tie going up.
Round(n, d) == (2 * n + d) \div (2 * d)

\* calculateAQI of a concentration of pm tenths of a microgram per cubic metre.
\* Faulty variant: the first band ends below 12.0 instead of at it.
calculateAQI_OpenBand(pm) ==
    IF pm < 120 THEN Round(50 * pm, 120)
    ELSE IF pm <= 354 THEN Round((100 - 51) * (pm - 121), 354 - 121) + 51
    ELSE IF pm <= 554 THEN Round((150 - 101) * (pm - 355), 554 - 355) + 101
    ELSE Round((200 - 151) * (pm - 555), 1504 - 555) + 151

\* Faulty variant: the third band starts at 100 instead of 101.
calculateAQI_LowBase(pm) ==
    IF pm <= 120 THEN Round(50 * pm, 120)
    ELSE IF pm <= 354 THEN Round((100 - 51) * (pm - 121), 354 - 121) + 51
    ELSE IF pm <= 554 THEN Round((150 - 101) * (pm - 355), 554 - 355) + 100
    ELSE Round((200 - 151) * (pm - 555), 1504 - 555) + 151

\* Faulty variant: the index is clamped at the top of the last band.
calculateAQI_Clamped(pm) ==
    IF pm <= 120 THEN Round(50 * pm, 120)
    ELSE IF pm <= 354 THEN Round((100 - 51) * (pm - 121), 354 - 121) + 51
    ELSE IF pm <= 554 THEN Round((150 - 101) * (pm - 355), 554 - 355) + 101
    ELSE IF pm <= 1504 THEN Round((200 - 151) * (pm - 555), 1504 - 555) + 151
    ELSE 200

calculateAQI(pm) ==
    IF pm <= 120 THEN Round(50 * pm, 120)
    ELSE IF pm <= 354 THEN Round((100 - 51) * (pm - 121), 354 - 121) + 51
    ELSE IF pm <= 554 THEN Round((150 - 101) * (pm - 355), 554 - 355) + 101
    ELSE Round((200 - 151) * (pm - 555), 1504 - 555) + 151

getAQICategory(aqi) ==
    IF aqi <= 50 THEN [category |-> "Good", color |-> "bg-green-500"]
    ELSE IF aqi <= 100 THEN [category |-> "Moderate", color |-> "bg-yellow-500"]
    ELSE IF aqi <= 150
    THEN [category |-> "Unhealthy for Sensitive Groups", color |-> "bg-orange-500"]
    ELSE IF aqi <= 200 THEN [category |-> "Unhealthy", color |-> "bg-red-500"]
    ELSE [category |-> "Very Unhealthy", color |-> "bg-purple-500"]

\* useState<AQIData | null>(null): pm25 = -1 stands for null.
NoData == [pm25 |-> -1, aqi |-> -1, category |-> "", colorClass |-> ""]

DisplayInit ==
    /\ aqiData = NoData
    /\ loading = TRUE
    /\ error = Null
    /\ polling = 0

\* fetchData up to its await: on mount and then on every interval tick.
PollStart ==
    /\ polling < MaxPolls
    /\ loading' = TRUE
    /\ polling' = polling + 1
    /\ UNCHANGED <<aqiData, error, routeVars>>

\* The endpoint answers 200 with a reading of pm tenths.
PollOk(pm) ==
    /\ polling > 0
    /\ aqiData' = [pm25 |-> pm,
                   aqi |-> calculateAQI(pm),
                   category |-> getAQICategory(calculateAQI(pm)).category,
                   colorClass |-> getAQICategory(calculateAQI(pm)).color]
    /\ loading' = FALSE
    /\ polling' = polling - 1
    /\ UNCHANGED <<error, routeVars>>

\* The endpoint answers 429 or 500, or the request fails.
PollFail(message) ==
    /\ polling > 0
    /\ error' = message
    /\ loading' = FALSE
    /\ polling' = polling - 1
    /\ UNCHANGED <<aqiData, routeVars>>

\* What the component renders: the spinner while loading, else the error
\* message if there is one, else the card with the reading.
View ==
    IF loading THEN "spinner"
    ELSE IF error # Null THEN "error"
    ELSE "reading"

\* -------------------------------------------------------------------- route
Init ==
    /\ DisplayInit
    /\ build \in Builds
    /\ now = 0
    /\ nextSweep = IF build = "interval" THEN SWEEP_INTERVAL ELSE 0
    /\ rateLimit = EmptyMap
    /\ cache = EmptyMap
    /\ pending = EmptyMap
    /\ event = Event("load", "-", "-", 0, Null)
    /\ recent = [ip \in ClientIds |-> <<>>]
    /\ gets = 0
    /\ unswept = [rateLimit |-> EmptyMap, cache |-> EmptyMap]

\* Time passes: the clock moves on to the instant t.
Tick(t) ==
    /\ t > now
    /\ now' = t
    /\ event' = Event("tick", "-", "-", 0, Null)
    /\ UNCHANGED <<build, nextSweep, rateLimit, cache, pending, recent, gets, unswept,
                   displayVars>>

\* The setInterval callback of the earlier revision.
Sweep ==
    /\ build = "interval"
    /\ now >= nextSweep
    /\ rateLimit' = cleanRateLimit(rateLimit, now)
    /\ cache' = cleanCache(cache, now)
    /\ nextSweep' = now + SWEEP_INTERVAL
    /\ event' = Event("sweep", "-", "-", 0, Null)
    /\ UNCHANGED <<build, now, pending, recent, gets, unswept, displayVars>>

\* What the request of ip for sensorId does to the Maps no clean-up loop has
\* touched: the limiter decides, and an admitted request looks the sensor up.
Unswept(ip, sensorId) ==
    LET rl == checkRateLimit(unswept.rateLimit, ip, now)
    IN  [rateLimit |-> rl.rateLimit,
         cache |-> IF rl.allowed THEN getCachedData(unswept.cache, sensorId, now).cache
                   ELSE unswept.cache]

\* Faulty variant: the cache is consulted before the rate limiter.
GET_LookupFirst(xff, xri, sensorId, slots, watch) ==
    LET ip == clientIp(build, xff, xri)
        got == getCachedData(cache, sensorId, now)
        rl == checkRateLimit(rateLimit, ip, now)
    IN  /\ cache' = got.cache
        /\ rateLimit' = rl.rateLimit
        /\ recent' = IF watch THEN [recent EXCEPT ![ip] = Observe(@, ip, now, rl.allowed)]
                     ELSE recent
        /\ gets' = gets + 1
        /\ unswept' = Unswept(ip, sensorId)
        /\ IF ~rl.allowed
           THEN /\ event' = Event("GET", ip, sensorId, 429, Null)
                /\ UNCHANGED pending
           ELSE IF got.data # Null
           THEN /\ event' = Event("GET", ip, sensorId, 200, got.data)
                /\ UNCHANGED pending
           ELSE /\ FreeSlots(slots) # {}
                /\ pending' = MapSet(pending, FirstFree(slots),
                                     [ip |-> ip, sensorId |-> sensorId, calls |-> 1])
                /\ event' = Event("fetch", ip, sensorId, 0, Null)
        /\ UNCHANGED <<build, now, nextSweep, displayVars>>

\* Faulty variant: a request served from the cache is not counted.
GET_HitsFree(xff, xri, sensorId, slots, watch) ==
    LET ip == clientIp(build, xff, xri)
        got == getCachedData(cache, sensorId, now)
        rl == IF got.data # Null
              THEN [allowed |-> checkRateLimit(rateLimit, ip, now).allowed,
                    rateLimit |-> rateLimit]
              ELSE checkRateLimit(rateLimit, ip, now)
    IN  /\ rateLimit' = rl.rateLimit
        /\ recent' = IF watch THEN [recent EXCEPT ![ip] = Observe(@, ip, now, rl.allowed)]
                     ELSE recent
        /\ gets' = gets + 1
        /\ unswept' = Unswept(ip, sensorId)
        /\ IF ~rl.allowed
           THEN /\ event' = Event("GET", ip, sensorId, 429, Null)
                /\ UNCHANGED <<cache, pending>>
           ELSE IF got.data # Null
           THEN /\ cache' = got.cache
                /\ event' = Event("GET", ip, sensorId, 200, got.data)
                /\ UNCHANGED pending
           ELSE /\ FreeSlots(slots) # {}
                /\ cache' = got.cache
                /\ pending' = MapSet(pending, FirstFree(slots),
                                     [ip |-> ip, sensorId |-> sensorId, calls |-> 1])
                /\ event' = Event("fetch", ip, sensorId, 0, Null)
        /\ UNCHANGED <<build, now, nextSweep, displayVars>>

\* GET up to its response or its suspension on the upstream call.
GET(xff, xri, sensorId, slots, watch) ==
    LET ip == clientIp(build, xff, xri)
        rl == checkRateLimit(rateLimit, ip, now)
        got == getCachedData(cache, sensorId, now)
    IN  /\ rateLimit' = rl.rateLimit
        /\ recent' = IF watch THEN [recent EXCEPT ![ip] = Observe(@, ip, now, rl.allowed)]
                     ELSE recent
        /\ gets' = gets + 1
        /\ unswept' = Unswept(ip, sensorId)
        /\ IF ~rl.allowed
           THEN /\ event' = Event("GET", ip, sensorId, 429, Null)
                /\ UNCHANGED <<cache, pending>>
           ELSE IF got.data # Null
           THEN /\ cache' = got.cache
                /\ event' = Event("GET", ip, sensorId, 200, got.data)
                /\ UNCHANGED pending
           ELSE /\ FreeSlots(slots) # {}
                /\ cache' = got.cache
                /\ pending' = MapSet(pending, FirstFree(slots),
                                     [ip |-> ip, sensorId |-> sensorId, calls |-> 1])
                /\ event' = Event("fetch", ip, sensorId, 0, Null)
        /\ UNCHANGED <<build, now, nextSweep, displayVars>>

\* The upstream call of handler h answers with payload data.
Resolve(h, data) ==
    /\ h \in DOMAIN pending
    /\ LET put == setCachedData(build, rateLimit, cache, pending[h].sensorId, data, now)
       IN  /\ rateLimit' = put.rateLimit
           /\ cache' = put.cache
    /\ pending' = MapDelete(pending, {h})
    /\ event' = Event("resolve", pending[h].ip, pending[h].sensorId, 200, data)
    /\ unswept' = setCachedData("interval", unswept.rateLimit, unswept.cache,
                                pending[h].sensorId, data, now)
    /\ UNCHANGED <<build, now, nextSweep, recent, gets, displayVars>>

\* Faulty variant: on failure the handler falls back on the cached payload.
Reject_Fallback(h, why) ==
    /\ h \in DOMAIN pending
    /\ pending' = MapDelete(pending, {h})
    /\ event' = IF pending[h].sensorId \in DOMAIN cache
                THEN Event("reject", pending[h].ip, pending[h].sensorId, 200,
                           cache[pending[h].sensorId].data)
                ELSE Event("reject", pending[h].ip, pending[h].sensorId, 500, Null)
    /\ UNCHANGED <<build, now, nextSweep, rateLimit, cache, recent, gets, unswept,
                   displayVars>>

\* Faulty variant: on failure the handler calls upstream once more.
Reject_Retry(h, why) ==
    /\ h \in DOMAIN pending
    /\ pending' = MapSet(pending, h, [pending[h] EXCEPT !.calls = 2])
    /\ event' = Event("reject", pending[h].ip, pending[h].sensorId, 0, Null)
    /\ UNCHANGED <<build, now, nextSweep, rateLimit, cache, recent, gets, unswept,
                   displayVars>>

\* The upstream call of handler h fails.
Reject(h, why) ==
    /\ h \in DOMAIN pending
    /\ pending' = MapDelete(pending, {h})
    /\ event' = Event("reject", pending[h].ip, pending[h].sensorId, 500, Null)
    /\ UNCHANGED <<build, now, nextSweep, rateLimit, cache, recent, gets, unswept,
                   displayVars>>

\* The first of the instants ts after now (now itself when there is none).
After(ts) ==
    IF \E t \in ts : t > now
    THEN CHOOSE t \in ts : t > now /\ \A u \in ts : u > now => t <= u
    ELSE now

\* The instants at which Spec observes the clock: 0 and one window later, then
\* CACHE_DURATION and every window after it up to MaxTicks windows.
Instants == {k * RATE_LIMIT_WINDOW : k \in {0, 1} \cup (CacheWindows..MaxTicks)}

\* Handler and cache: every header combination, two sensors, two payloads.
Next ==
    \/ Tick(After(Instants))
    \/ Sweep
    \/ \E xff \in ForwardedFor, xri \in RealIp, s \in Sensors :
          gets < MaxGets /\ GET(xff, xri, s, 1..MaxInFlight, FALSE)
    \/ \E h \in 1..MaxInFlight, d \in Payloads : Resolve(h, d)
    \/ \E h \in 1..MaxInFlight, why \in Failures : Reject(h, why)

Spec == Init /\ [][Next]_vars

\* Rate limiter: one caller, one sensor, one payload, one handler in flight, a
\* finer clock.
LimiterTickMs == RATE_LIMIT_WINDOW \div LimiterTicksPerWindow

\* The instants at which SpecLimiter observes the clock: LimiterMaxTicks steps
\* from 0, then one window short of CACHE_DURATION, then CACHE_DURATION.
LimiterInstants ==
    {k * LimiterTickMs : k \in 0..LimiterMaxTicks}
        \cup {CACHE_DURATION - RATE_LIMIT_WINDOW, CACHE_DURATION}

NextLimiter ==
    \/ Tick(After(LimiterInstants))
    \/ Sweep
    \/ gets < LimiterMaxGets /\ GET("a", "", "s1", {1}, TRUE)
    \/ Resolve(1, "d1")
    \/ \E why \in Failures : Reject(1, why)

SpecLimiter == Init /\ [][NextLimiter]_vars

\* The display component alone.
Messages == {"Failed to fetch data", "An error occurred"}

NextDisplay ==
    \/ PollStart
    \/ \E pm \in 0..MaxPm25 : PollOk(pm)
    \/ \E m \in Messages : PollFail(m)

InitDisplay == Init /\ build = "onPut"

SpecDisplay == InitDisplay /\ [][NextDisplay]_vars

\* Liveness of the sweep: one caller, one sensor, two requests; time passes and
\* a due timer fires.  Nothing makes a request arrive or the upstream answer.
SweeperGets == 2

NextSweeper ==
    \/ Tick(After(Instants))
    \/ Sweep
    \/ gets < SweeperGets /\ GET("a", "", "s1", {1}, FALSE)
    \/ Resolve(1, "d1")
    \/ \E why \in Failures : Reject(1, why)

SpecSweeper ==
    /\ Init
    /\ [][NextSweeper]_vars
    /\ WF_vars(Tick(After(Instants)))
    /\ WF_vars(Sweep)

\* The upstream call handler h awaits returns, with a payload or a failure.
Return(h) ==
    \/ Resolve(h, "d1")
    \/ \E why \in Failures : Reject(h, why)

\* Requests whose upstream call returns: one caller, one sensor, one payload,
\* several handlers in flight, a clock that reaches the first sweep; every
\* awaited upstream call eventually returns.
AnsweredGets == 4

NextAnswered ==
    \/ Tick(After({0, SWEEP_INTERVAL}))
    \/ Sweep
    \/ gets < AnsweredGets /\ GET("a", "", "s1", 1..MaxInFlight, FALSE)
    \/ \E h \in 1..MaxInFlight : Return(h)

SpecAnswered ==
    /\ Init
    /\ [][NextAnswered]_vars
    /\ \A h \in 1..MaxInFlight : WF_vars(Return(h))

\* Several callers: every header combination, one sensor, one payload, one
\* handler in flight, whole windows on the clock, enough requests for one
\* caller to reach the limit while another asks.
ClientsMaxTicks == 2

ClientsMaxGets == 12

ClientsInstants == {k * RATE_LIMIT_WINDOW : k \in 0..ClientsMaxTicks}

NextClients ==
    \/ Tick(After(ClientsInstants))
    \/ Sweep
    \/ \E xff \in ForwardedFor, xri \in RealIp :
          gets < ClientsMaxGets /\ GET(xff, xri, "s1", {1}, FALSE)
    \/ Resolve(1, "d1")
    \/ \E why \in Failures : Reject(1, why)

SpecClients == Init /\ [][NextClients]_vars

\* Sweeps against no sweeps: one caller, one sensor, one handler in flight,
\* enough requests to be denied, the clock of Spec.
SweptGets == 11

NextSwept ==
    \/ Tick(After(Instants))
    \/ Sweep
    \/ gets < SweptGets /\ GET("a", "", "s1", {1}, FALSE)
    \/ \E d \in Payloads : Resolve(1, d)
    \/ \E why \in Failures : Reject(1, why)

SpecSwept == Init /\ [][NextSwept]_vars

\* ------------------------------------------------------------------- claims
\* A step that handles a request (GET up to its response or suspension).
RequestStep == gets' = gets + 1

\* A step in which a suspended handler resumes.
ResumeStep == pending' # pending /\ gets' = gets

\* The clean-up loops run in this step.
SweepStep ==
    \/ event'.op = "sweep" /\ nextSweep' # nextSweep
    \/ build = "onPut" /\ ResumeStep /\ event'.op = "resolve"

RateExpired(ip) ==
    ip \in DOMAIN rateLimit /\ now - rateLimit[ip].timestamp > RATE_LIMIT_WINDOW

CacheExpired(k) ==
    k \in DOMAIN cache /\ now - cache[k].timestamp > CACHE_DURATION

\* C1 as stated: whenever a client issues 11 requests whose times all lie
\* within one 300 000 ms span, the 11th of them is denied.
C1_EleventhAlwaysDenied ==
    \A ip \in ClientIds :
        Len(recent[ip]) = MAX_REQUESTS + 1 => ~recent[ip][MAX_REQUESTS + 1].allowed

\* C1 amended: whenever a client issues 11 requests whose times all lie within
\* one 300 000 ms span and the first of them opens a rate-limit window (the
\* client has no entry, or its entry is more than 300 000 ms old), the 11th of
\* them is denied.
C1_EleventhDeniedInWindow ==
    \A ip \in ClientIds :
        Len(recent[ip]) = MAX_REQUESTS + 1 /\ recent[ip][1].opened
            => ~recent[ip][MAX_REQUESTS + 1].allowed

C1_Witness ==
    \E ip \in ClientIds :
        /\ Len(recent[ip]) = MAX_REQUESTS + 1
        /\ recent[ip][1].opened
        /\ recent[ip][MAX_REQUESTS + 1].t > recent[ip][1].t
        /\ ~recent[ip][MAX_REQUESTS + 1].allowed
        /\ event.status = 429

\* C2: once a payload for a sensor is cached, then for the following 30
\* minutes no upstream call for that sensor is started and every response for
\* that sensor that carries a payload carries the cached one.
C2_OneFetchOnePayload ==
    [][\A s \in DOMAIN cache :
          now - cache[s].timestamp < CACHE_DURATION /\ event'.sensorId = s
              => /\ ~(RequestStep /\ event'.op = "fetch")
                 /\ (RequestStep \/ ResumeStep) /\ event'.status = 200
                        => event'.data = cache[s].data]_vars

\* C3: a request that passes the rate limiter is answered from the cache, with
\* the stored payload and the cache left alone, exactly when the sensor has an
\* entry of age < 30 minutes; otherwise it goes upstream and the sensor's
\* entry, if there was one, is gone.
C3_FreshOrAbsent ==
    [][RequestStep /\ event'.status # 429
          => LET s == event'.sensorId
             IN  IF s \in DOMAIN cache /\ now - cache[s].timestamp < CACHE_DURATION
                 THEN /\ event'.op = "GET"
                      /\ event'.status = 200
                      /\ event'.data = cache[s].data
                      /\ cache' = cache
                      /\ pending' = pending
                 ELSE /\ event'.op = "fetch"
                      /\ cache' = MapDelete(cache, {s})
                      /\ DOMAIN pending' # DOMAIN pending]_vars

C3_Witness ==
    /\ event.op = "GET"
    /\ event.status = 200
    /\ event.sensorId \in DOMAIN cache
    /\ now - cache[event.sensorId].timestamp = CACHE_DURATION - RATE_LIMIT_WINDOW
    /\ event.data = cache[event.sensorId].data

\* C4: checkRateLimit follows the four rules in order: no entry -> (1, now),
\* allow; entry older than 300 s -> (1, now), allow; count < 10 -> (count + 1,
\* same timestamp), allow; otherwise deny and leave the table alone.
C4_AllowRules ==
    [][RequestStep
          => LET ip == event'.ip
             IN  IF ip \notin DOMAIN rateLimit
                      \/ now - rateLimit[ip].timestamp > RATE_LIMIT_WINDOW
                 THEN /\ event'.status # 429
                      /\ rateLimit' = MapSet(rateLimit, ip, [count |-> 1, timestamp |-> now])
                 ELSE IF rateLimit[ip].count < MAX_REQUESTS
                 THEN /\ event'.status # 429
                      /\ rateLimit' = MapSet(rateLimit, ip,
                                             [count |-> rateLimit[ip].count + 1,
                                              timestamp |-> rateLimit[ip].timestamp])
                 ELSE /\ event'.status = 429
                      /\ rateLimit' = rateLimit]_vars

\* The window was re-armed by a request that came within 300 s of an earlier one.
C4_Witness ==
    \E ip \in DOMAIN rateLimit :
        /\ event.ip = ip
        /\ event.status # 429
        /\ rateLimit[ip] = [count |-> 1, timestamp |-> now]
        /\ Len(recent[ip]) >= 2
        /\ ~recent[ip][1].opened

\* C5: a sweep at time now leaves in the rate-limit table exactly the entries
\* with now - timestamp <= 300 s and in the cache exactly the entries with
\* now - timestamp <= 30 min (next to the entry a put stores), all unchanged.
C5_SweepExact ==
    [][SweepStep
          => /\ rateLimit' = MapDelete(rateLimit, {ip \in DOMAIN rateLimit : RateExpired(ip)})
             /\ \A k \in DOMAIN cache \cup DOMAIN cache' :
                   event'.op = "sweep" \/ k # event'.sensorId
                       => /\ k \in DOMAIN cache' <=> k \in DOMAIN cache /\ ~CacheExpired(k)
                          /\ k \in DOMAIN cache' => cache'[k] = cache[k]]_vars

\* A sweep has just run and kept a cache entry of age exactly 30 minutes.
C5_Witness ==
    /\ event.op = "sweep"
    /\ \E k \in DOMAIN cache : now - cache[k].timestamp = CACHE_DURATION

\* C6: an entry whose window has elapsed does not stay in its table for ever,
\* whether or not another request arrives.
C6_InactiveEntriesRemoved ==
    /\ \A ip \in ClientIds : RateExpired(ip) ~> ~RateExpired(ip)
    /\ \A k \in Sensors : CacheExpired(k) ~> ~CacheExpired(k)

\* C7: a request that finds its client's count at the limit inside the window
\* is answered 429 with no payload, and changes neither table nor the set of
\* suspended handlers.
C7_DeniedNoEffect ==
    [][RequestStep /\ (LET ip == event'.ip
                       IN  /\ ip \in DOMAIN rateLimit
                           /\ now - rateLimit[ip].timestamp <= RATE_LIMIT_WINDOW
                           /\ rateLimit[ip].count >= MAX_REQUESTS)
          => /\ event'.op = "GET"
             /\ event'.status = 429
             /\ event'.data = Null
             /\ UNCHANGED <<rateLimit, cache, pending>>]_vars

\* A request was denied while the sensor's cache entry was 30 minutes old.
C7_Witness ==
    /\ event.op = "GET"
    /\ event.status = 429
    /\ event.sensorId \in DOMAIN cache
    /\ now - cache[event.sensorId].timestamp >= CACHE_DURATION

\* C8: when the upstream call of a suspended handler fails, the handler
\* answers 500 with no payload after its single upstream call, and the cache
\* is unchanged.
C8_FailureIsFinal ==
    [][ResumeStep /\ event'.op = "reject"
          => \E h \in DOMAIN pending :
                /\ pending' = MapDelete(pending, {h})
                /\ pending[h].calls = 1
                /\ event'.sensorId = pending[h].sensorId
                /\ event'.status = 500
                /\ event'.data = Null
                /\ cache' = cache]_vars

\* A handler answered 500 although the cache held a payload for its sensor.
C8_Witness ==
    /\ event.op = "reject"
    /\ event.status = 500
    /\ event.sensorId \in DOMAIN cache

\* C9: a put stores (d, now) for its key whatever was there, and an entry
\* stays as it is while its age is under 30 minutes and no put for its key
\* happens (so that a get in that time returns d: C3).
C9_PutOverwrites ==
    [][/\ ResumeStep /\ event'.op = "resolve"
          => /\ event'.sensorId \in DOMAIN cache'
             /\ cache'[event'.sensorId] = [data |-> event'.data, timestamp |-> now]
       /\ \A k \in DOMAIN cache :
             /\ now' - cache[k].timestamp < CACHE_DURATION
             /\ ~(ResumeStep /\ event'.op = "resolve" /\ event'.sensorId = k)
             => k \in DOMAIN cache' /\ cache'[k] = cache[k]]_vars

\* A get returned the payload of a put made earlier.
C9_Witness ==
    /\ event.op = "GET"
    /\ event.status = 200
    /\ event.sensorId \in DOMAIN cache
    /\ event.data = cache[event.sensorId].data
    /\ now > cache[event.sensorId].timestamp


\* C10: calculateAQI maps the band boundaries to the ends of the output
\* sub-ranges: 12.0 -> 50, 12.1 -> 51, 35.4 -> 100, 35.5 -> 101, 55.4 -> 150,
\* 55.5 -> 151 (whenever the display holds a reading at a boundary, the index
\* it holds for it is that end).
C10_Boundaries ==
    /\ aqiData.pm25 = 120 => aqiData.aqi = 50
    /\ aqiData.pm25 = 121 => aqiData.aqi = 51
    /\ aqiData.pm25 = 354 => aqiData.aqi = 100
    /\ aqiData.pm25 = 355 => aqiData.aqi = 101
    /\ aqiData.pm25 = 554 => aqiData.aqi = 150
    /\ aqiData.pm25 = 555 => aqiData.aqi = 151

C10_Witness == aqiData.pm25 = 355 /\ aqiData.aqi = 101 /\ ~loading

\* C11: for a concentration inside one of the four bands the index lies in
\* that band's output sub-range; for a concentration <= 12.0 it is the integer
\* nearest to 50/12 * concentration; and of two successive readings the larger
\* concentration never has the smaller index.
C11_InBandAndMonotone ==
    /\ [](/\ (0 <= aqiData.pm25 /\ aqiData.pm25 <= 120)
               => (/\ 0 <= aqiData.aqi
                   /\ aqiData.aqi <= 50
                   /\ 120 * (2 * aqiData.aqi - 1) <= 100 * aqiData.pm25
                   /\ 100 * aqiData.pm25 < 120 * (2 * aqiData.aqi + 1))
          /\ (121 <= aqiData.pm25 /\ aqiData.pm25 <= 354)
               => (51 <= aqiData.aqi /\ aqiData.aqi <= 100)
          /\ (355 <= aqiData.pm25 /\ aqiData.pm25 <= 554)
               => (101 <= aqiData.aqi /\ aqiData.aqi <= 150)
          /\ (555 <= aqiData.pm25 /\ aqiData.pm25 <= 1504)
               => (151 <= aqiData.aqi /\ aqiData.aqi <= 200))
    /\ [][(0 <= aqiData.pm25 /\ aqiData.pm25 <= aqiData'.pm25)
              => aqiData.aqi <= aqiData'.aqi]_vars

C11_Witness == aqiData.pm25 = 1504 /\ aqiData.aqi = 200 /\ View = "reading"

\* C12: the category and colour held are the ones of the first threshold
\* (50, 100, 150, 200) the index does not exceed, "Very Unhealthy" beyond; above
\* 150.4 the index is 151 plus the integer nearest to 49/94.9 * (c - 55.5),
\* and it exceeds 200 from some concentration on.
C12_CategoryOfIndex ==
    /\ aqiData.pm25 >= 0
        => (/\ (aqiData.category = "Good") <=> (aqiData.aqi <= 50)
            /\ (aqiData.category = "Moderate")
                   <=> (50 < aqiData.aqi /\ aqiData.aqi <= 100)
            /\ (aqiData.category = "Unhealthy for Sensitive Groups")
                   <=> (100 < aqiData.aqi /\ aqiData.aqi <= 150)
            /\ (aqiData.category = "Unhealthy")
                   <=> (150 < aqiData.aqi /\ aqiData.aqi <= 200)
            /\ (aqiData.category = "Very Unhealthy") <=> (200 < aqiData.aqi)
            /\ aqiData.colorClass = getAQICategory(aqiData.aqi).color)
    /\ aqiData.pm25 > 1504
        => (/\ 949 * (2 * (aqiData.aqi - 151) - 1) <= 98 * (aqiData.pm25 - 555)
            /\ 98 * (aqiData.pm25 - 555) < 949 * (2 * (aqiData.aqi - 151) + 1))
    /\ aqiData.pm25 = MaxPm25 => aqiData.aqi > 200

C12_Witness ==
    /\ aqiData.pm25 = MaxPm25
    /\ aqiData.aqi > 200
    /\ aqiData.category = "Very Unhealthy"
    /\ aqiData.colorClass = "bg-purple-500"

\* The units of quota the client has used in its current window.
Used(ip) ==
    IF ip \in DOMAIN rateLimit /\ now - rateLimit[ip].timestamp <= RATE_LIMIT_WINDOW
    THEN rateLimit[ip].count
    ELSE 0

\* C13: a request is checked against the limiter first: a denied one uses no
\* quota, looks nothing up and calls nothing; an admitted one uses exactly one
\* unit, be it answered from the cache or sent upstream; and the later answer
\* or failure of the upstream call uses no further unit.
C13_OneUnitPerAdmitted ==
    [][/\ RequestStep =>
            IF event'.status = 429
            THEN /\ Used(event'.ip) = MAX_REQUESTS
                 /\ UNCHANGED <<rateLimit, cache, pending>>
            ELSE /\ Used(event'.ip) < MAX_REQUESTS
                 /\ rateLimit'[event'.ip].count = Used(event'.ip) + 1
                 /\ now - rateLimit'[event'.ip].timestamp <= RATE_LIMIT_WINDOW
       /\ ResumeStep =>
            /\ event'.status \in {200, 500}
            /\ \A ip \in DOMAIN rateLimit' :
                   ip \in DOMAIN rateLimit /\ rateLimit'[ip] = rateLimit[ip]]_vars

\* A request that failed with 500 has used its unit like the one before it.
C13_Witness ==
    /\ event.op = "reject"
    /\ event.status = 500
    /\ event.ip \in DOMAIN rateLimit
    /\ rateLimit[event.ip].count = 2
    /\ rateLimit[event.ip].timestamp = now

\* C14: a request is answered at once (payload or 429) or suspended on one
\* upstream call; a suspended handler is left alone until its upstream call
\* returns and then answers once, with the payload or with 500, and is gone;
\* it does eventually answer when upstream calls return; and while handlers
\* are suspended a further request can still be handled.
C14_AnsweredOnce ==
    /\ \A h \in 1..MaxInFlight : (h \in DOMAIN pending) ~> (h \notin DOMAIN pending)
    /\ [][/\ RequestStep =>
               \/ event'.op = "GET" /\ event'.status \in {200, 429} /\ pending' = pending
               \/ /\ event'.op = "fetch"
                  /\ \E h \in (1..MaxInFlight) \ DOMAIN pending :
                        pending' = MapSet(pending, h, [ip |-> event'.ip,
                                                       sensorId |-> event'.sensorId,
                                                       calls |-> 1])
          /\ \A h \in DOMAIN pending :
               (h \notin DOMAIN pending' \/ pending'[h] # pending[h])
               => /\ event'.op \in {"resolve", "reject"}
                  /\ event'.status = (IF event'.op = "resolve" THEN 200 ELSE 500)
                  /\ event'.ip = pending[h].ip
                  /\ event'.sensorId = pending[h].sensorId
                  /\ pending' = MapDelete(pending, {h})]_vars
    /\ [](FreeSlots(1..MaxInFlight) # {}
             => ENABLED GET("a", "", "s1", 1..MaxInFlight, FALSE))

\* A request answered from the cache while another handler is still suspended.
C14_Witness ==
    /\ event.op = "GET"
    /\ event.status = 200
    /\ pending # EmptyMap

\* C15: a client whose last request was denied stays denied, its entry
\* untouched, while now is within 300 000 ms of the start of its window, and
\* its first request after that (entry still present or swept away) is
\* admitted and sets the entry to count 1, timestamp now.
C15_ReadmittedAfterWindow ==
    [][\A ip \in ClientIds :
          (/\ RequestStep
           /\ event'.ip = ip
           /\ recent[ip] # <<>>
           /\ ~recent[ip][Len(recent[ip])].allowed)
          => IF ip \in DOMAIN rateLimit
                /\ now - rateLimit[ip].timestamp <= RATE_LIMIT_WINDOW
             THEN event'.status = 429 /\ rateLimit' = rateLimit
             ELSE /\ event'.status # 429
                  /\ rateLimit'[ip] = [count |-> 1, timestamp |-> now]]_vars

\* Denied in the window opened earlier, then admitted again after it.
C15_Witness ==
    \E ip \in ClientIds :
        /\ Len(recent[ip]) >= 2
        /\ ~recent[ip][Len(recent[ip]) - 1].allowed
        /\ recent[ip][Len(recent[ip]) - 1].t < now
        /\ recent[ip][Len(recent[ip])].allowed
        /\ recent[ip][Len(recent[ip])].t = now
        /\ rateLimit[ip] = [count |-> 1, timestamp |-> now]
        /\ event.status # 429

\* C16: every rate-limit entry has a count from 1 to MAX_REQUESTS and a
\* timestamp not after now, and every cache entry a timestamp not after now.
C16_EntriesWellFormed ==
    /\ \A ip \in DOMAIN rateLimit :
           /\ 1 <= rateLimit[ip].count
           /\ rateLimit[ip].count <= MAX_REQUESTS
           /\ rateLimit[ip].timestamp <= now
    /\ \A k \in DOMAIN cache : cache[k].timestamp <= now

C16_Witness ==
    /\ \E ip \in DOMAIN rateLimit :
           /\ rateLimit[ip].count = MAX_REQUESTS
           /\ rateLimit[ip].timestamp < now
    /\ \E k \in DOMAIN cache : cache[k].timestamp < now
    /\ event.status = 429

\* C17: at every moment a request gets the same answer from the Maps as the
\* clean-up loops left them as from the Maps no loop has touched: the same
\* allow/deny decision for every caller, and the same hit (with the same
\* payload) or miss, hence the same upstream call, for every sensor.
C17_SweepUnobservable ==
    /\ \A ip \in ClientIds :
           checkRateLimit(rateLimit, ip, now).allowed
               = checkRateLimit(unswept.rateLimit, ip, now).allowed
    /\ \A s \in Sensors :
           getCachedData(cache, s, now).data = getCachedData(unswept.cache, s, now).data

\* The loops have removed a full rate-limit entry and a cache entry.
C17_Witness ==
    /\ rateLimit = EmptyMap
    /\ cache = EmptyMap
    /\ \E ip \in DOMAIN unswept.rateLimit : unswept.rateLimit[ip].count = MAX_REQUESTS
    /\ unswept.cache # EmptyMap

\* C18: a request changes no rate-limit entry but its caller's, and no cache
\* entry but an expired one of the sensor it asks for; and no step other than
\* a request of client b changes the decision a request of b would get at any
\* later instant.
C18_ClientsIndependent ==
    [][\A b \in ClientIds :
          /\ (RequestStep /\ event'.ip # b)
             => /\ (b \in DOMAIN rateLimit') <=> (b \in DOMAIN rateLimit)
                /\ b \in DOMAIN rateLimit => rateLimit'[b] = rateLimit[b]
                /\ \/ cache' = cache
                   \/ /\ event'.status # 429
                      /\ event'.sensorId \in DOMAIN cache
                      /\ now - cache[event'.sensorId].timestamp >= CACHE_DURATION
                      /\ cache' = MapDelete(cache, {event'.sensorId})
          /\ ~(RequestStep /\ event'.ip = b)
             => \A t \in ClientsInstants :
                   t >= now' => checkRateLimit(rateLimit', b, t).allowed
                                    = checkRateLimit(rateLimit, b, t).allowed]_vars

\* One caller is at its limit and denied, another is admitted next.
C18_Witness ==
    /\ event.op \in {"GET", "fetch"}
    /\ event.status # 429
    /\ \E a \in DOMAIN rateLimit :
           /\ a # event.ip
           /\ rateLimit[a].count = MAX_REQUESTS
           /\ rateLimit[a].timestamp = rateLimit[event.ip].timestamp
           /\ rateLimit[event.ip].count = 2

\* C19: a poll that brings a new reading leaves the component showing the
\* reading (not the error of an earlier failed poll).
C19_ShowsReadingAfterSuccess ==
    [][(polling' < polling /\ aqiData' # aqiData) => View' = "reading"]_vars

====
